---- MODULE Spec2Model ----
(***************************************************************************)
(* Login throttling and session lifecycle of the sales-and-inventory       *)
(* application.                                                            *)
(*                                                                         *)
(* Two deployments of the same program are modelled, chosen in Init:       *)
(*   "memory": POST /api/login of attached_assets/routes_1757427353264.ts  *)
(*             (express-session) over MemStorage (unnamed/part_003);       *)
(*   "mongo" : POST /api/login, /api/logout and /api/admin/reset-password  *)
(*             of server/storage.ts (sessionId cookie) over MongoStorage.  *)
(* Time is the JavaScript clock in milliseconds.  An optional Date is the  *)
(* empty tuple (null/undefined) or a one-element tuple holding the time.   *)
(* reqSession is what express-session holds for the client's cookie, and   *)
(* inflight the position and locals of each request handler in progress.   *)
(***************************************************************************)
EXTENDS Integers, Sequences, FiniteSets, TLC

VARIABLES deployment, clock, advances, users, sessions, nextSid, cookie,
          resp, attemptLog, reqSession, inflight,
          products, sales, accounts, verificationCodes, sentCodes

\* the stores the login, logout and session operations do not touch: the
\* Product and Sale collections, the users of MemStorage keyed by id (as
\* registerUser fills it), the verification codes and the codes mailed
otherStores == <<products, sales, accounts, verificationCodes, sentCodes>>

vars == <<deployment, clock, advances, users, sessions, nextSid, cookie,
          resp, attemptLog, reqSession, inflight, otherStores>>

(* ------------------------------ bounds -------------------------------- *)

\* how many times the clock may advance in one behaviour
MaxAdvances == 3
\* how many sessions may be minted in one behaviour
MaxSessions == 1

(* ----------------------------- constants ------------------------------ *)

OneMinute == 1 * 60000
FiveMinutes == 5 * 60000
FiveMinutesMongo == 5 * 60 * 1000
SessionLifetime == 24 * 60 * 60 * 1000

\* amounts by which the clock advances between two requests
Jumps == {1000, OneMinute, FiveMinutes}
\* time that passes inside one handler between its first clock reading and
\* the readings made after its awaits (bcrypt.compare, store calls)
HandlerDelays == {0, 1}

Usernames == {"admin", "user"}
UnknownUsername == "ghost"
\* the usernames login requests are made with
LoginUsernames == {"user", UnknownUsername}
Passwords == {"admin123", "user123"}

NoDate == <<>>
DateOf(t) == <<t>>

\* Math.ceil(a / b) for b > 0
Ceil(a, b) == -((-a) \div b)

(* ------------------------------ bcrypt -------------------------------- *)

bcryptHash(plain) == <<"bcrypt", plain>>
bcryptCompare(plain, hashed) == hashed = bcryptHash(plain)

(* ------------------------- storage: accounts -------------------------- *)

SeedUser(name, plain, role) ==
  [id |-> name, username |-> name, password |-> bcryptHash(plain),
   role |-> role, loginAttempts |-> 0, lastFailedLogin |-> NoDate,
   cooldownUntil |-> NoDate]

seedUsers ==
  [u \in Usernames |->
     IF u = "admin" THEN SeedUser("admin", "admin123", "admin")
                    ELSE SeedUser("user", "user123", "user")]

UserExists(us, username) == username \in DOMAIN us

incrementLoginAttempts(us, username, t) ==
  IF UserExists(us, username)
  THEN [us EXCEPT ![username].loginAttempts = @ + 1,
                  ![username].lastFailedLogin = DateOf(t)]
  ELSE us

\* mutant: the reset leaves lastFailedLogin and cooldownUntil in place
resetLoginAttempts_CounterOnly(us, username) ==
  IF UserExists(us, username)
  THEN [us EXCEPT ![username].loginAttempts = 0]
  ELSE us

resetLoginAttempts(us, username) ==
  IF UserExists(us, username)
  THEN [us EXCEPT ![username].loginAttempts = 0,
                  ![username].lastFailedLogin = NoDate,
                  ![username].cooldownUntil = NoDate]
  ELSE us

\* mutant: storing a cooldown also resets the counter
setCooldown_ResetsCounter(us, username, cooldownUntil) ==
  IF UserExists(us, username)
  THEN [us EXCEPT ![username].cooldownUntil = cooldownUntil,
                  ![username].loginAttempts = 0]
  ELSE us

setCooldown(us, username, cooldownUntil) ==
  IF UserExists(us, username)
  THEN [us EXCEPT ![username].cooldownUntil = cooldownUntil]
  ELSE us

clearCooldown(us, username) ==
  IF UserExists(us, username)
  THEN [us EXCEPT ![username].cooldownUntil = NoDate]
  ELSE us

unlockUserAccount(us, username) ==
  IF UserExists(us, username)
  THEN [us EXCEPT ![username].loginAttempts = 0,
                  ![username].cooldownUntil = NoDate]
  ELSE us

updateUserPassword(us, username, hashed) ==
  IF UserExists(us, username)
  THEN [us EXCEPT ![username].password = hashed]
  ELSE us

(* ------------------------- storage: sessions -------------------------- *)

\* mutant: the session is recorded for a fixed account, not the caller's
createSession_WrongOwner(ss, sid, userId, t) ==
  ss @@ (sid :> [id |-> sid, userId |-> "admin",
                 expiresAt |-> t + SessionLifetime, createdAt |-> t])

\* mutant: a new session replaces the sessions the same user already holds
createSession_SinglePerUser(ss, sid, userId, t) ==
  [s \in {x \in DOMAIN ss : ss[x].userId # userId} |-> ss[s]]
    @@ (sid :> [id |-> sid, userId |-> userId,
                expiresAt |-> t + SessionLifetime, createdAt |-> t])

createSession(ss, sid, userId, t) ==
  ss @@ (sid :> [id |-> sid, userId |-> userId,
                 expiresAt |-> t + SessionLifetime, createdAt |-> t])

\* MemStorage.getSession: the session found, or <<>>, and the store after
SessionExpiredMem(session, now) == session.expiresAt < now

\* mutant: a successful lookup extends the session's lifetime
memGetSession_Sliding(ss, sid, now) ==
  IF sid \notin DOMAIN ss
  THEN [found |-> <<>>, sessions |-> ss]
  ELSE IF SessionExpiredMem(ss[sid], now)
       THEN [found |-> <<>>,
             sessions |-> [s \in DOMAIN ss \ {sid} |-> ss[s]]]
       ELSE [found |-> <<[ss[sid] EXCEPT !.expiresAt = now + SessionLifetime]>>,
             sessions |-> [ss EXCEPT ![sid].expiresAt = now + SessionLifetime]]

memGetSession(ss, sid, now) ==
  IF sid \notin DOMAIN ss
  THEN [found |-> <<>>, sessions |-> ss]
  ELSE IF SessionExpiredMem(ss[sid], now)
       THEN [found |-> <<>>,
             sessions |-> [s \in DOMAIN ss \ {sid} |-> ss[s]]]
       ELSE [found |-> <<ss[sid]>>, sessions |-> ss]

\* MongoStorage.getSession: findOne by id, with no test of expiresAt
mongoGetSession(ss, sid) ==
  [found |-> IF sid \in DOMAIN ss THEN <<ss[sid]>> ELSE <<>>,
   sessions |-> ss]

\* mutant: the call reports a deletion whether or not a record existed
deleteSession_AlwaysTrue(ss, sid) ==
  [deleted |-> TRUE,
   sessions |-> [s \in DOMAIN ss \ {sid} |-> ss[s]]]

\* deleteSession of both stores: whether a record existed, and the store after
deleteSession(ss, sid) ==
  [deleted |-> sid \in DOMAIN ss,
   sessions |-> [s \in DOMAIN ss \ {sid} |-> ss[s]]]

(* ----------------------------- responses ------------------------------ *)

\* The last request and its response.  before: the account as the handler
\* read it (<<>>: no such account); minted: the id of the session the
\* handler created in the store (<<>>: none); session: the session id the
\* response carries; now: the handler's first clock reading.
Response(op, username, pwOk, status, msg, attempts, cooldownUntil, wait, session, now, before, minted) ==
  [op |-> op, username |-> username, pwOk |-> pwOk, status |-> status,
   msg |-> msg, attempts |-> attempts, cooldownUntil |-> cooldownUntil,
   wait |-> wait, session |-> session, now |-> now, before |-> before,
   minted |-> minted]

NoResponse ==
  Response("none", "", FALSE, 0, "", <<>>, NoDate, <<>>, <<>>, 0, <<>>, <<>>)

\* The last call of the session store and its result.
SessionResponse(op, sid, before, result, now) ==
  [op |-> op, sid |-> sid, before |-> before, result |-> result, now |-> now]

(* ------------- POST /api/login, routes_1757427353264.ts --------------- *)

\* mutant: the cooldown check is skipped
InCooldownSession_Skipped(user, now) == FALSE

InCooldownSession(user, now) ==
  user.cooldownUntil # NoDate /\ now < user.cooldownUntil[1]

waitMinutes(user, now) == Ceil(user.cooldownUntil[1] - now, 60000)

\* mutant: the thresholds are compared with > instead of >=
ThresholdCooldown_Strict(attempts, now) ==
  IF attempts > 5 THEN DateOf(now + FiveMinutes)
  ELSE IF attempts > 3 THEN DateOf(now + OneMinute)
  ELSE NoDate

\* mutant: the five-failure threshold is missing
ThresholdCooldown_NoEscalation(attempts, now) ==
  IF attempts >= 3 THEN DateOf(now + OneMinute) ELSE NoDate

\* mutant: the thresholds are compared with = instead of >=
ThresholdCooldown_Exact(attempts, now) ==
  IF attempts = 5 THEN DateOf(now + FiveMinutes)
  ELSE IF attempts = 3 THEN DateOf(now + OneMinute)
  ELSE NoDate

\* the cooldown the failed-attempt branch sets for the updated count
ThresholdCooldown(attempts, now) ==
  IF attempts >= 5 THEN DateOf(now + FiveMinutes)
  ELSE IF attempts >= 3 THEN DateOf(now + OneMinute)
  ELSE NoDate

ThresholdMessage(attempts) ==
  IF attempts >= 5 THEN "5 failed attempts. Wait 5 minutes."
  ELSE IF attempts >= 3 THEN "3 failed attempts. Wait 1 minute."
  ELSE "Invalid username or password. (n/5 attempts)"

\* now: the handler's `now`; later: the clock after its awaits
loginSessionRoute(us, ss, sid, username, password, now, later) ==
  IF ~UserExists(us, username)
  THEN [users |-> us, sessions |-> ss, nextSid |-> sid,
        resp |-> Response("login", username, FALSE, 401,
                          "Invalid username or password", <<>>, NoDate,
                          <<>>, <<>>, now, <<>>, <<>>)]
  ELSE LET user == us[username]
           pwOk == bcryptCompare(password, user.password)
       IN IF InCooldownSession(user, now)
          THEN [users |-> us, sessions |-> ss, nextSid |-> sid,
                resp |-> Response("login", username, pwOk, 429,
                                  "You must wait", <<>>, user.cooldownUntil,
                                  <<waitMinutes(user, now)>>, <<>>, now,
                                  <<user>>, <<>>)]
          ELSE IF pwOk
          THEN [users |-> resetLoginAttempts(us, username),
                sessions |-> createSession(ss, sid, user.id, later),
                nextSid |-> sid + 1,
                resp |-> Response("login", username, pwOk, 200, "success",
                                  <<>>, NoDate, <<>>, <<>>, now, <<user>>,
                                  <<sid>>)]
          ELSE LET us1 == incrementLoginAttempts(us, username, later)
                   attempts == us1[username].loginAttempts
                   cu == ThresholdCooldown(attempts, now)
               IN [users |-> IF cu # NoDate
                             THEN setCooldown(us1, username, cu) ELSE us1,
                   sessions |-> ss, nextSid |-> sid,
                   resp |-> Response("login", username, pwOk,
                                     IF cu # NoDate THEN 429 ELSE 401,
                                     ThresholdMessage(attempts),
                                     IF cu # NoDate THEN <<>>
                                                    ELSE <<attempts>>,
                                     cu, <<>>, <<>>, now, <<user>>, <<>>)]

(* ------------------ POST /api/login, server/storage.ts ---------------- *)

\* mutant: the instant the cooldown ends still counts as locked
InCooldownCookie_Inclusive(user, now) ==
  user.cooldownUntil # NoDate /\ user.cooldownUntil[1] >= now

InCooldownCookie(user, now) ==
  user.cooldownUntil # NoDate /\ user.cooldownUntil[1] > now

\* mutant: the remaining wait is rounded down
remainingSeconds_Floor(user, now) == (user.cooldownUntil[1] - now) \div 1000

remainingSeconds(user, now) == Ceil(user.cooldownUntil[1] - now, 1000)

\* decided on the account as read before incrementLoginAttempts
LocksCookie(user) == user.loginAttempts >= 2

loginCookieRoute(us, ss, sid, username, password, now, later) ==
  IF ~UserExists(us, username)
  THEN [users |-> us, sessions |-> ss, nextSid |-> sid,
        resp |-> Response("login", username, FALSE, 401,
                          "Invalid credentials", <<>>, NoDate, <<>>, <<>>,
                          now, <<>>, <<>>)]
  ELSE LET user == us[username]
           pwOk == bcryptCompare(password, user.password)
       IN IF InCooldownCookie(user, now)
          THEN [users |-> us, sessions |-> ss, nextSid |-> sid,
                resp |-> Response("login", username, pwOk, 429,
                                  "Account temporarily locked. Try again later.",
                                  <<>>, user.cooldownUntil,
                                  <<remainingSeconds(user, now)>>, <<>>,
                                  now, <<user>>, <<>>)]
          ELSE IF ~pwOk
          THEN LET us1 == incrementLoginAttempts(us, username, later)
               IN IF LocksCookie(user)
                  THEN LET cu == DateOf(later + FiveMinutesMongo)
                       IN [users |-> setCooldown(us1, username, cu),
                           sessions |-> ss, nextSid |-> sid,
                           resp |-> Response("login", username, pwOk, 429,
                                   "Too many failed attempts. Account locked for 5 minutes.",
                                   <<>>, cu, <<>>, <<>>, now, <<user>>, <<>>)]
                  ELSE [users |-> us1, sessions |-> ss, nextSid |-> sid,
                        resp |-> Response("login", username, pwOk, 401,
                                          "Invalid credentials", <<>>,
                                          NoDate, <<>>, <<>>, now, <<user>>,
                                          <<>>)]
          ELSE [users |-> resetLoginAttempts(us, username),
                sessions |-> createSession(ss, sid, user.id, later),
                nextSid |-> sid + 1,
                resp |-> Response("login", username, pwOk, 200, "success",
                                  <<>>, NoDate, <<>>, <<sid>>, now, <<user>>,
                                  <<sid>>)]

(* ----------------------- outcome of a response ------------------------ *)

\* the decision a login response carries
Outcome(r) ==
  IF r.status = 200 THEN "Allow"
  ELSE IF r.status = 429 THEN "Locked"
  ELSE IF r.before # <<>> THEN "Deny"
  ELSE "InvalidCredentials"

(* --------------------------- attempt log ------------------------------ *)

\* minutes of the cooldown a request has newly stored (0: none)
LockMinutes(before, after, now) ==
  IF after.cooldownUntil = before.cooldownUntil \/ after.cooldownUntil = NoDate
  THEN 0
  ELSE (after.cooldownUntil[1] - now) \div 60000

\* the log of the wrong-password requests on an account since its counter
\* was last reset; emptied by a reset.  Requests answered by the cooldown
\* check that follow one another are logged once.
LogAfter(log, username, before, after, r) ==
  IF username \notin Usernames THEN log
  ELSE IF Outcome(r) = "Allow" THEN [log EXCEPT ![username] = <<>>]
  ELSE IF r.pwOk THEN log
  ELSE IF after[username].loginAttempts = before[username].loginAttempts
          /\ log[username] # <<>>
          /\ ~log[username][Len(log[username])].counted
       THEN log
  ELSE [log EXCEPT ![username] =
          Append(@, [counted |-> after[username].loginAttempts
                                  # before[username].loginAttempts,
                     outcome |-> Outcome(r),
                     n |-> after[username].loginAttempts,
                     lock |-> LockMinutes(before[username], after[username],
                                          r.now)])]

(* ------------------------------ actions ------------------------------- *)

\* what the express-session login route stores in req.session
SessionData(user) ==
  [userId |-> user.id, username |-> user.username, role |-> user.role]

\* the requests that may be in progress at the same time
Handlers == {1, 2}

\* the products the store starts with, and the stock of each
ProductIds == {"P1", "P2"}
InitialStock == 2
seedProducts ==
  [p \in ProductIds |-> [id |-> p, name |-> p, price |-> 1,
                         quantity |-> InitialStock]]
\* a handler that is serving no request
Idle == [pc |-> "idle"]

\* The state after construction: MemStorage seeds its two demo accounts;
\* the Mongo collection holds the same two accounts as registered (counter 0,
\* no cooldown), no session exists and no request has been made.
Init ==
  /\ deployment \in {"memory", "mongo"}
  /\ clock = 0
  /\ advances = 0
  /\ users = seedUsers
  /\ sessions = <<>>
  /\ nextSid = 1
  /\ cookie = <<>>
  /\ resp = NoResponse
  /\ attemptLog = [u \in Usernames |-> <<>>]
  /\ reqSession = <<>>
  /\ inflight = [h \in Handlers |-> Idle]
  /\ products = seedProducts
  /\ sales = <<>>
  /\ accounts = <<>>
  /\ verificationCodes = <<>>
  /\ sentCodes = <<>>

LoginRoute(us, ss, sid, username, password, now, later) ==
  IF deployment = "memory"
  THEN loginSessionRoute(us, ss, sid, username, password, now, later)
  ELSE loginCookieRoute(us, ss, sid, username, password, now, later)

\* mutant: a request for an unknown username is counted against every account
Login_UnknownCounted(username, password, d) ==
  LET out == LoginRoute(users, sessions, nextSid, username, password,
                        clock, clock + d)
  IN /\ d > 0 => advances < MaxAdvances
     /\ out.nextSid <= MaxSessions + 1
     /\ users' = IF UserExists(users, username) THEN out.users
                 ELSE [u \in DOMAIN users |->
                         [users[u] EXCEPT !.loginAttempts = @ + 1]]
     /\ sessions' = out.sessions
     /\ nextSid' = out.nextSid
     /\ resp' = out.resp
     /\ cookie' = IF out.resp.session # <<>> THEN out.resp.session ELSE cookie
     /\ attemptLog' = attemptLog
     /\ clock' = clock + d
     /\ advances' = IF d > 0 THEN advances + 1 ELSE advances
     /\ UNCHANGED <<deployment, reqSession, inflight, otherStores>>

Login(username, password, d) ==
  LET out == LoginRoute(users, sessions, nextSid, username, password,
                        clock, clock + d)
  IN /\ d > 0 => advances < MaxAdvances
     /\ out.nextSid <= MaxSessions + 1
     /\ users' = out.users
     /\ sessions' = out.sessions
     /\ nextSid' = out.nextSid
     /\ resp' = out.resp
     /\ cookie' = IF out.resp.session # <<>> THEN out.resp.session ELSE cookie
     /\ attemptLog' = LogAfter(attemptLog, username, users, out.users,
                               out.resp)
     /\ clock' = clock + d
     /\ advances' = IF d > 0 THEN advances + 1 ELSE advances
     /\ reqSession' = IF deployment = "memory" /\ out.resp.status = 200
                      THEN <<SessionData(users[username])>> ELSE reqSession
     /\ UNCHANGED <<deployment, inflight, otherStores>>

Tick(j) ==
  /\ advances < MaxAdvances
  /\ clock' = clock + j
  /\ advances' = advances + 1
  /\ UNCHANGED <<deployment, users, sessions, nextSid, cookie, resp,
                 attemptLog, reqSession, inflight, otherStores>>

Next ==
  \/ \E u \in LoginUsernames, p \in Passwords,
        d \in HandlerDelays : Login(u, p, d)
  \/ \E j \in Jumps : Tick(j)

Spec == Init /\ [][Next]_vars

(* ---------------- the session store of MemStorage, called directly ----- *)

\* amounts by which the clock advances between two calls of the store
SessionJumps == {1, SessionLifetime}
\* the ids the store is asked for: those it may have minted and one it never has
SessionIds == 1..(MaxSessions + 1)

MemCreateSession(userId) ==
  /\ nextSid <= MaxSessions
  /\ sessions' = createSession(sessions, nextSid, userId, clock)
  /\ nextSid' = nextSid + 1
  /\ resp' = SessionResponse("createSession", nextSid, <<>>,
                             <<sessions'[nextSid]>>, clock)
  /\ UNCHANGED <<deployment, clock, advances, users, cookie, attemptLog,
                 reqSession, inflight, otherStores>>

MemGetSession(sid) ==
  LET out == memGetSession(sessions, sid, clock)
  IN /\ sessions' = out.sessions
     /\ resp' = SessionResponse("getSession", sid,
                                IF sid \in DOMAIN sessions
                                THEN <<sessions[sid]>> ELSE <<>>,
                                out.found, clock)
     /\ UNCHANGED <<deployment, clock, advances, users, nextSid, cookie,
                    attemptLog, reqSession, inflight, otherStores>>

MemDeleteSession(sid) ==
  LET out == deleteSession(sessions, sid)
  IN /\ sessions' = out.sessions
     /\ resp' = SessionResponse("deleteSession", sid,
                                IF sid \in DOMAIN sessions
                                THEN <<sessions[sid]>> ELSE <<>>,
                                <<out.deleted>>, clock)
     /\ UNCHANGED <<deployment, clock, advances, users, nextSid, cookie,
                    attemptLog, reqSession, inflight, otherStores>>

InitMem == Init /\ deployment = "memory"

NextMemSessions ==
  \/ \E u \in Usernames : MemCreateSession(seedUsers[u].id)
  \/ \E sid \in SessionIds : MemGetSession(sid)
  \/ \E sid \in SessionIds : MemDeleteSession(sid)
  \/ \E j \in SessionJumps : Tick(j)

SpecMemSessions == InitMem /\ [][NextMemSessions]_vars

(* -------- the session store of either deployment, called directly ------ *)

\* how many sessions the store may be asked to create in one behaviour
MaxStoreSessions == 2
\* the ids the store is asked for: those it may have minted and one it never has
StoreSessionIds == 1..(MaxStoreSessions + 1)

\* getSession of the deployment's store
getSession(ss, sid, now) ==
  IF deployment = "memory" THEN memGetSession(ss, sid, now)
                           ELSE mongoGetSession(ss, sid)

\* the record of a session id as the store holds it (<<>>: none)
Stored(ss, sid) == IF sid \in DOMAIN ss THEN <<ss[sid]>> ELSE <<>>

CreateSession(userId) ==
  /\ nextSid <= MaxStoreSessions
  /\ sessions' = createSession(sessions, nextSid, userId, clock)
  /\ nextSid' = nextSid + 1
  /\ resp' = SessionResponse("createSession", nextSid, <<>>,
                             <<sessions'[nextSid]>>, clock)
  /\ UNCHANGED <<deployment, clock, advances, users, cookie, attemptLog,
                 reqSession, inflight, otherStores>>

GetSession(sid) ==
  LET out == getSession(sessions, sid, clock)
  IN /\ sessions' = out.sessions
     /\ resp' = SessionResponse("getSession", sid, Stored(sessions, sid),
                                out.found, clock)
     /\ UNCHANGED <<deployment, clock, advances, users, nextSid, cookie,
                    attemptLog, reqSession, inflight, otherStores>>

DeleteSession(sid) ==
  LET out == deleteSession(sessions, sid)
  IN /\ sessions' = out.sessions
     /\ resp' = SessionResponse("deleteSession", sid, Stored(sessions, sid),
                                <<out.deleted>>, clock)
     /\ UNCHANGED <<deployment, clock, advances, users, nextSid, cookie,
                    attemptLog, reqSession, inflight, otherStores>>

\* the documents the TTL index on expiresAt (expireAfterSeconds: 0) lets the
\* database remove
TtlExpired(ss, now) == {s \in DOMAIN ss : ss[s].expiresAt <= now}

\* One pass of the database's TTL monitor over the Session collection.  It
\* runs in the background at times the program does not control and removes
\* documents whose expiresAt has been reached.
TtlSweep(gone) ==
  /\ deployment = "mongo"
  /\ gone # {}
  /\ gone \subseteq TtlExpired(sessions, clock)
  /\ sessions' = [s \in DOMAIN sessions \ gone |-> sessions[s]]
  /\ UNCHANGED <<deployment, clock, advances, users, nextSid, cookie, resp,
                 attemptLog, reqSession, inflight, otherStores>>

NextSessions ==
  \/ \E u \in Usernames : CreateSession(seedUsers[u].id)
  \/ \E sid \in StoreSessionIds : GetSession(sid)
  \/ \E sid \in StoreSessionIds : DeleteSession(sid)
  \/ \E gone \in SUBSET StoreSessionIds : TtlSweep(gone)
  \/ \E j \in SessionJumps : Tick(j)

SpecSessions == Init /\ [][NextSessions]_vars

(* ------------------------- POST /api/logout --------------------------- *)

\* The last logout request and its response.  credential: what the request
\* carried (the sessionId cookie, or the req.session of the connect.sid
\* cookie; <<>>: none).
LogoutResponse(credential, status, now) ==
  [op |-> "logout", credential |-> credential, status |-> status, now |-> now]

\* routes_1757427353264.ts: req.session.destroy, and nothing else
logoutSessionRoute(ss, rs) == [sessions |-> ss, reqSession |-> <<>>]

\* server/storage.ts: deleteSession of the cookie's id, then clearCookie
logoutCookieRoute(ss, ck) ==
  [sessions |-> IF ck # <<>> THEN deleteSession(ss, ck[1]).sessions ELSE ss,
   cookie |-> <<>>]

Logout ==
  /\ IF deployment = "memory"
     THEN /\ sessions' = logoutSessionRoute(sessions, reqSession).sessions
          /\ reqSession' = logoutSessionRoute(sessions, reqSession).reqSession
          /\ resp' = LogoutResponse(reqSession, 200, clock)
          /\ UNCHANGED cookie
     ELSE /\ sessions' = logoutCookieRoute(sessions, cookie).sessions
          /\ cookie' = logoutCookieRoute(sessions, cookie).cookie
          /\ resp' = LogoutResponse(cookie, 200, clock)
          /\ UNCHANGED reqSession
  /\ UNCHANGED <<deployment, clock, advances, users, nextSid, attemptLog,
                 inflight, otherStores>>

NextLogout ==
  \/ \E u \in LoginUsernames, p \in Passwords : Login(u, p, 0)
  \/ Logout
  \/ \E j \in Jumps : Tick(j)

SpecLogout == Init /\ [][NextLogout]_vars

(* --------- POST /api/login with requests served concurrently ---------- *)
(* Each await of a handler is a point where another request's handler may  *)
(* run: after the account was read and the cooldown checked (bcrypt        *)
(* compare), after incrementLoginAttempts or resetLoginAttempts, and after *)
(* the threshold decision (setCooldown).                                   *)

\* how many failures an account may have counted in one behaviour
MaxFailures == 3
\* the usernames concurrent requests are made with
ConcurrentUsernames == {"user"}
\* amounts by which the clock advances between two steps of the handlers
ConcurrentJumps == {FiveMinutes}

\* the handlers that are serving a request
Busy == {h \in Handlers : inflight[h].pc # "idle"}

\* the cooldown check of the deployment's route
InCooldown(user, now) ==
  IF deployment = "memory" THEN InCooldownSession(user, now)
                           ELSE InCooldownCookie(user, now)

\* getUserByUsername, the cooldown check and the call of bcrypt.compare:
\* answered at once for an unknown username or an active cooldown.  A new
\* request is served by the first handler that is free.
BeginLogin(h, username, password) ==
  /\ inflight[h] = Idle
  /\ \A g \in Handlers : g < h => inflight[g] # Idle
  /\ IF ~UserExists(users, username) \/ InCooldown(users[username], clock)
     THEN /\ resp' = LoginRoute(users, sessions, nextSid, username, password,
                                clock, clock).resp
          /\ UNCHANGED inflight
     ELSE LET pwOk == bcryptCompare(password, users[username].password)
          IN /\ IF pwOk
                THEN nextSid + Cardinality({b \in Busy : inflight[b].pwOk})
                       <= MaxSessions
                ELSE users[username].loginAttempts
                       + Cardinality({b \in Busy : ~inflight[b].pwOk})
                       < MaxFailures
             /\ inflight' = [inflight EXCEPT ![h] =
                  [pc |-> "compare", username |-> username, pwOk |-> pwOk,
                   now |-> clock, user |-> users[username], count |-> <<>>,
                   cu |-> NoDate]]
             /\ UNCHANGED resp
  /\ UNCHANGED <<deployment, clock, advances, users, sessions, nextSid,
                 cookie, attemptLog, reqSession,
                    otherStores>>

\* bcrypt.compare has answered: resetLoginAttempts or incrementLoginAttempts
CompareDone(h) ==
  LET f == inflight[h]
  IN /\ f.pc = "compare"
     /\ users' = IF f.pwOk THEN resetLoginAttempts(users, f.username)
                 ELSE incrementLoginAttempts(users, f.username, clock)
     /\ inflight' = [inflight EXCEPT ![h].pc =
                       IF f.pwOk THEN "reset" ELSE "incremented"]
     /\ UNCHANGED <<deployment, clock, advances, sessions, nextSid, cookie,
                    resp, attemptLog, reqSession,
                    otherStores>>

\* createSession and the 200 response
MintSession(h) ==
  LET f == inflight[h]
  IN /\ f.pc = "reset"
     /\ sessions' = createSession(sessions, nextSid, f.user.id, clock)
     /\ nextSid' = nextSid + 1
     /\ resp' = Response("login", f.username, f.pwOk, 200, "success", <<>>,
                         NoDate, <<>>,
                         IF deployment = "memory" THEN <<>> ELSE <<nextSid>>,
                         f.now, <<f.user>>, <<nextSid>>)
     /\ cookie' = IF deployment = "memory" THEN cookie ELSE <<nextSid>>
     /\ reqSession' = IF deployment = "memory" THEN <<SessionData(f.user)>>
                      ELSE reqSession
     /\ inflight' = [inflight EXCEPT ![h] = Idle]
     /\ UNCHANGED <<deployment, clock, advances, users, attemptLog,
                    otherStores>>

\* the failure count the handler decides on: the account re-read after the
\* increment (express-session route), or the account as read before it
\* (cookie route); and the cooldown it decides to store
DecidedCount(f) ==
  IF deployment = "memory" THEN users[f.username].loginAttempts
                           ELSE f.user.loginAttempts

DecidedCooldown(f) ==
  IF deployment = "memory" THEN ThresholdCooldown(DecidedCount(f), f.now)
  ELSE IF LocksCookie(f.user) THEN DateOf(clock + FiveMinutesMongo)
  ELSE NoDate

DecideLock(h) ==
  LET f == inflight[h]
  IN /\ f.pc = "incremented"
     /\ inflight' = [inflight EXCEPT ![h].pc = "decided",
                                     ![h].count = <<DecidedCount(f)>>,
                                     ![h].cu = DecidedCooldown(f)]
     /\ UNCHANGED <<deployment, clock, advances, users, sessions, nextSid,
                    cookie, resp, attemptLog, reqSession,
                    otherStores>>

\* the message of a wrong-password response
FailureMessage(f) ==
  IF deployment = "memory" THEN ThresholdMessage(f.count[1])
  ELSE IF f.cu # NoDate
  THEN "Too many failed attempts. Account locked for 5 minutes."
  ELSE "Invalid credentials"

\* setCooldown, if a cooldown was decided, and the 429 or 401 response
SendFailure(h) ==
  LET f == inflight[h]
  IN /\ f.pc = "decided"
     /\ users' = IF f.cu # NoDate THEN setCooldown(users, f.username, f.cu)
                 ELSE users
     /\ resp' = Response("login", f.username, f.pwOk,
                         IF f.cu # NoDate THEN 429 ELSE 401,
                         FailureMessage(f),
                         IF deployment = "memory" /\ f.cu = NoDate
                         THEN f.count ELSE <<>>,
                         f.cu, <<>>, <<>>, f.now, <<f.user>>, <<>>)
     /\ inflight' = [inflight EXCEPT ![h] = Idle]
     /\ UNCHANGED <<deployment, clock, advances, sessions, nextSid, cookie,
                    attemptLog, reqSession,
                    otherStores>>

\* A call of the Mongo store rejects (the connection drops): the handler's
\* catch answers 400 and nothing the handler had still to write is written.
StoreCallFails(h) ==
  LET f == inflight[h]
  IN /\ deployment = "mongo"
     /\ \/ f.pc \in {"compare", "reset"}
        \/ f.pc = "decided" /\ f.cu # NoDate
     /\ resp' = Response("login", f.username, f.pwOk, 400,
                         "Invalid request data", <<>>, NoDate, <<>>, <<>>,
                         f.now, <<f.user>>, <<>>)
     /\ inflight' = [inflight EXCEPT ![h] = Idle]
     /\ UNCHANGED <<deployment, clock, advances, users, sessions, nextSid,
                    cookie, attemptLog, reqSession,
                    otherStores>>

NextConcurrent ==
  \/ \E h \in Handlers, u \in ConcurrentUsernames, p \in Passwords :
       BeginLogin(h, u, p)
  \/ \E h \in Handlers : CompareDone(h)
  \/ \E h \in Handlers : MintSession(h)
  \/ \E h \in Handlers : DecideLock(h)
  \/ \E h \in Handlers : SendFailure(h)
  \/ \E h \in Handlers : StoreCallFails(h)
  \/ \E j \in ConcurrentJumps : Tick(j)

SpecConcurrent == Init /\ [][NextConcurrent]_vars

(* ---------------- admin endpoints over the Mongo store ---------------- *)

\* The admin endpoints exist only in the cookie deployment: they call
\* updateUserPassword and unlockUserAccount, which MongoStorage alone has.
InitAdmin == Init /\ deployment = "mongo"

AdminJumps == {SessionLifetime}

\* clock advances of one behaviour of this specification
MaxAdminAdvances == 1

\* req.body.username: absent, a stored account, an account that is not stored
AdminTargets == {"", "user", UnknownUsername}

\* req.body.newPassword: absent, blank, a new password
NewPasswords == {"", " ", "new123"}

\* String.prototype.trim on the request's newPassword
trim(s) == IF s = " " THEN "" ELSE s

\* String.prototype.toLowerCase on a stored role (the schema's default role
\* is written "Admin")
toLowerCase(role) == IF role = "Admin" THEN "admin" ELSE role

\* MongoStorage.getUser: the account of an id (<<>>: none)
getUser(us, id) ==
  IF \E u \in DOMAIN us : us[u].id = id
  THEN <<us[CHOOSE u \in DOMAIN us : us[u].id = id]>>
  ELSE <<>>

\* MongoStorage.getAllUsers and the route's filter: the staff and supplier
\* accounts, without their password
getAllUsers(us) ==
  {[id |-> us[u].id, username |-> us[u].username, role |-> us[u].role,
    loginAttempts |-> us[u].loginAttempts,
    cooldownUntil |-> us[u].cooldownUntil] :
     u \in {v \in DOMAIN us : toLowerCase(us[v].role) \in {"staff", "supplier"}}}

\* The last admin request and its response.  credential: the sessionId
\* cookie; session: the record getSession returned (<<>>: none); before: the
\* accounts when the request arrived; body: the accounts a 200 response of
\* GET /api/admin/accounts lists.
AdminResponse(op, credential, session, status, msg, username, newPassword, before, body, now) ==
  [op |-> op, credential |-> credential, session |-> session,
   status |-> status, msg |-> msg, username |-> username,
   newPassword |-> newPassword, before |-> before, body |-> body,
   now |-> now]

\* The first lines of every admin handler: the cookie, the stored session,
\* the role of its user.  status 0: the request may proceed.
adminAuth(us, ss, ck) ==
  IF ck = <<>>
  THEN [status |-> 401, msg |-> "Unauthorized", session |-> <<>>]
  ELSE LET session == mongoGetSession(ss, ck[1]).found
       IN IF session = <<>>
          THEN [status |-> 401, msg |-> "Invalid session", session |-> <<>>]
          ELSE LET adminUser == getUser(us, session[1].userId)
               IN IF adminUser = <<>>
                     \/ toLowerCase(adminUser[1].role) # "admin"
                  THEN [status |-> 403, msg |-> "Access denied",
                        session |-> session]
                  ELSE [status |-> 0, msg |-> "", session |-> session]

\* POST /api/admin/reset-password.  required: the copy of the handler that
\* insists on a new password (routes file); the other copy (server/storage.ts)
\* unlocks when the new password is absent or blank.
adminResetPasswordRoute(us, ss, ck, username, newPassword, required, now) ==
  LET auth == adminAuth(us, ss, ck)
      Answer(status, msg, us1) ==
        [users |-> us1,
         resp |-> AdminResponse("adminReset", ck, auth.session, status, msg,
                                username, newPassword, us, {}, now)]
  IN IF auth.status # 0 THEN Answer(auth.status, auth.msg, us)
     ELSE IF required
     THEN IF username = "" \/ newPassword = ""
          THEN Answer(400, "Username and newPassword required", us)
          ELSE IF ~UserExists(us, username)
          THEN Answer(404, "User not found", us)
          ELSE Answer(200, "Password reset",
                      updateUserPassword(us, username,
                                         bcryptHash(newPassword)))
     ELSE IF username = ""
          THEN Answer(400, "Username is required", us)
          ELSE IF ~UserExists(us, username)
          THEN Answer(404, "User not found", us)
          ELSE IF newPassword # "" /\ trim(newPassword) # ""
          THEN Answer(200, "unlocked and password reset",
                      updateUserPassword(us, username,
                                         bcryptHash(newPassword)))
          ELSE Answer(200,
                      IF newPassword # "" THEN "unlocked and password reset"
                                          ELSE "unlocked",
                      unlockUserAccount(us, username))

\* GET /api/admin/accounts
adminAccountsRoute(us, ss, ck, now) ==
  LET auth == adminAuth(us, ss, ck)
  IN IF auth.status # 0
     THEN AdminResponse("adminAccounts", ck, auth.session, auth.status,
                        auth.msg, "", "", us, {}, now)
     ELSE AdminResponse("adminAccounts", ck, auth.session, 200, "", "", "",
                        us, getAllUsers(us), now)

AdminResetPassword(username, newPassword, required) ==
  LET out == adminResetPasswordRoute(users, sessions, cookie, username,
                                     newPassword, required, clock)
  IN /\ users' = out.users
     /\ resp' = out.resp
     /\ UNCHANGED <<deployment, clock, advances, sessions, nextSid, cookie,
                    attemptLog, reqSession, inflight, otherStores>>

AdminAccounts ==
  /\ resp' = adminAccountsRoute(users, sessions, cookie, clock)
  /\ UNCHANGED <<deployment, clock, advances, users, sessions, nextSid,
                 cookie, attemptLog, reqSession, inflight, otherStores>>

\* A login of this specification; the attempt log is capped at MaxFailures
\* entries for an account.
AdminLogin(username, password) ==
  /\ Len(attemptLog[username]) < MaxFailures
  /\ Login(username, password, 0)

AdminTick(j) ==
  /\ advances < MaxAdminAdvances
  /\ Tick(j)

NextAdmin ==
  \/ \E u \in Usernames, p \in Passwords : AdminLogin(u, p)
  \/ \E u \in AdminTargets, p \in NewPasswords, required \in BOOLEAN :
        AdminResetPassword(u, p, required)
  \/ AdminAccounts
  \/ \E gone \in SUBSET StoreSessionIds : TtlSweep(gone)
  \/ \E j \in AdminJumps : AdminTick(j)

SpecAdmin == InitAdmin /\ [][NextAdmin]_vars

(* ------------- stock deduction and sales over the Mongo store --------- *)

\* deductProductStock exists in MongoStorage alone; the Product collection
\* holds the products created so far.
InitStock == Init /\ deployment = "mongo"

\* Sale records and requests in progress beyond which no request is taken
MaxSales == 2

UnknownProduct == "P9"

\* req.params.id and item.id
StockIds == ProductIds \cup {UnknownProduct}

\* req.body.quantity and item.quantity
Quantities == {-1, 1, 2}

Item(id, quantity) == [id |-> id, quantity |-> quantity]

\* req.body.items of POST /api/sales: no item, one item, two items
SaleRequests ==
  {<<>>}
    \cup {<<Item(p, q)>> : p \in {"P1"}, q \in {1, 2}}
    \cup {<<Item("P1", 1), Item(p, q)>> : p \in {"P2", UnknownProduct},
                                         q \in {1, InitialStock + 1}}

Max(a, b) == IF a >= b THEN a ELSE b

\* MongoStorage.getProductByManualId || getProduct: the product of an id
getProduct(ps, id) == IF id \in DOMAIN ps THEN <<ps[id]>> ELSE <<>>

\* product.save() of deductProductStock: the quantity computed from the
\* document as findOne returned it is written to the collection
saveProduct(ps, doc, quantity) ==
  [ps EXCEPT ![doc.id].quantity = Max(0, doc.quantity - quantity)]

\* SaleModel.create of deductProductStock
createSale(sl, doc, quantity) ==
  Append(sl, [productId |-> doc.id, productName |-> doc.name,
              quantitySold |-> quantity, totalPrice |-> doc.price * quantity])

\* The last stock request and its response.  items: the items requested;
\* done: the items of this request that deductProductStock has carried out.
StockResponse(op, status, msg, items, done) ==
  [op |-> op, status |-> status, msg |-> msg, items |-> items, done |-> done]

\* a handler that has taken a request and is about to look its item i up
StockRequest(route, items) ==
  [pc |-> "lookup", route |-> route, items |-> items, i |-> 1,
   done |-> <<>>, product |-> <<>>, doc |-> <<>>]

StockUnchanged ==
  UNCHANGED <<deployment, clock, advances, users, sessions, nextSid, cookie,
              attemptLog, reqSession, accounts, verificationCodes, sentCodes>>

\* POST /api/products/:id/deduct arrives
BeginDeduct(h, id, quantity) ==
  /\ inflight[h] = Idle
  /\ \A g \in Handlers : g < h => inflight[g] # Idle
  /\ Len(sales) + Cardinality(Busy) < MaxSales
  /\ inflight' = [inflight EXCEPT ![h] =
                    StockRequest("deduct", <<Item(id, quantity)>>)]
  /\ UNCHANGED <<resp, products, sales>>
  /\ StockUnchanged

\* POST /api/sales arrives
BeginSale(h, items) ==
  /\ inflight[h] = Idle
  /\ \A g \in Handlers : g < h => inflight[g] # Idle
  /\ Len(sales) + Cardinality(Busy) < MaxSales
  /\ IF items = <<>>
     THEN /\ resp' = StockResponse("sales", 400, "No sale items provided",
                                   items, <<>>)
          /\ UNCHANGED inflight
     ELSE /\ inflight' = [inflight EXCEPT ![h] = StockRequest("sales", items)]
          /\ UNCHANGED resp
  /\ UNCHANGED <<products, sales>>
  /\ StockUnchanged

\* the route has read the product of its current item: 404, 400, or on to
\* deductProductStock
LookupProduct(h) ==
  LET f == inflight[h]
      item == f.items[f.i]
      product == getProduct(products, item.id)
  IN /\ f.pc = "lookup"
     /\ IF product = <<>>
        THEN /\ resp' = StockResponse(f.route, 404, "Product not found",
                                      f.items, f.done)
             /\ inflight' = [inflight EXCEPT ![h] = Idle]
        ELSE IF product[1].quantity < item.quantity
        THEN /\ resp' = StockResponse(f.route, 400, "Insufficient stock",
                                      f.items, f.done)
             /\ inflight' = [inflight EXCEPT ![h] = Idle]
        ELSE /\ inflight' = [inflight EXCEPT ![h].pc = "findOne",
                                             ![h].product = product]
             /\ UNCHANGED resp
     /\ UNCHANGED <<products, sales>>
     /\ StockUnchanged

\* deductProductStock: ProductModel.findOne has answered
FindOne(h) ==
  LET f == inflight[h]
      doc == getProduct(products, f.product[1].id)
  IN /\ f.pc = "findOne"
     /\ IF doc = <<>>
        THEN /\ resp' = StockResponse(f.route, 500,
                                      IF f.route = "deduct"
                                      THEN "Failed to deduct stock"
                                      ELSE "Failed to complete sale",
                                      f.items, f.done)
             /\ inflight' = [inflight EXCEPT ![h] = Idle]
        ELSE /\ inflight' = [inflight EXCEPT ![h].pc = "save",
                                             ![h].doc = doc]
             /\ UNCHANGED resp
     /\ UNCHANGED <<products, sales>>
     /\ StockUnchanged

\* deductProductStock: product.save()
Save(h) ==
  LET f == inflight[h]
  IN /\ f.pc = "save"
     /\ products' = saveProduct(products, f.doc[1], f.items[f.i].quantity)
     /\ inflight' = [inflight EXCEPT ![h].pc = "create"]
     /\ UNCHANGED <<resp, sales>>
     /\ StockUnchanged

\* deductProductStock: SaleModel.create; the sales route then takes its next
\* item or answers, the deduct route goes on to read the product again
CreateSale(h) ==
  LET f == inflight[h]
      done == Append(f.done, f.items[f.i])
  IN /\ f.pc = "create"
     /\ sales' = createSale(sales, f.doc[1], f.items[f.i].quantity)
     /\ IF f.route = "deduct"
        THEN /\ inflight' = [inflight EXCEPT ![h].pc = "reply",
                                             ![h].done = done]
             /\ UNCHANGED resp
        ELSE IF f.i < Len(f.items)
        THEN /\ inflight' = [inflight EXCEPT ![h].pc = "lookup",
                                             ![h].i = f.i + 1,
                                             ![h].done = done]
             /\ UNCHANGED resp
        ELSE /\ resp' = StockResponse("sales", 200,
                                      "Transaction completed successfully.",
                                      f.items, done)
             /\ inflight' = [inflight EXCEPT ![h] = Idle]
     /\ UNCHANGED products
     /\ StockUnchanged

\* the deduct route has read the product again and answers
ReplyDeduct(h) ==
  LET f == inflight[h]
  IN /\ f.pc = "reply"
     /\ resp' = StockResponse("deduct", 200, "Deducted and recorded sale.",
                              f.items, f.done)
     /\ inflight' = [inflight EXCEPT ![h] = Idle]
     /\ UNCHANGED <<products, sales>>
     /\ StockUnchanged

NextStock ==
  \/ \E h \in Handlers, id \in StockIds, q \in Quantities :
        BeginDeduct(h, id, q)
  \/ \E h \in Handlers, items \in SaleRequests : BeginSale(h, items)
  \/ \E h \in Handlers : LookupProduct(h)
  \/ \E h \in Handlers : FindOne(h)
  \/ \E h \in Handlers : Save(h)
  \/ \E h \in Handlers : CreateSale(h)
  \/ \E h \in Handlers : ReplyDeduct(h)

SpecStock == InitStock /\ [][NextStock]_vars

(* ---------------------- MemStorage.registerUser ----------------------- *)

InitRegister == Init /\ deployment = "memory"

\* accounts and registrations in progress beyond which no call is taken
MaxAccounts == 3

\* userData.username: a seeded account's name and two new names
RegisterUsernames == {"admin", "maria", "jose"}

\* userData.password
RegisterPasswords == {"pw1", "pw2"}

\* randomUUID: the id of the n-th registered account
randomUUID(n) == <<"uuid", n>>

\* MemStorage.getUserByUsername over the whole users map (the seeded
\* accounts and the registered ones): the first record of that username
\* (<<>>: none)
memGetUserByUsername(us, acc, username) ==
  IF UserExists(us, username) THEN <<us[username]>>
  ELSE IF \E i \in DOMAIN acc : acc[i].username = username
  THEN <<acc[CHOOSE i \in DOMAIN acc :
               /\ acc[i].username = username
               /\ \A j \in DOMAIN acc : acc[j].username = username => i <= j]>>
  ELSE <<>>

\* The last registerUser call that returned or threw.
RegisterResult(username, ok, error, user) ==
  [op |-> "register", username |-> username, ok |-> ok, error |-> error,
   user |-> user]

\* registerUser is called: the username check, and bcrypt.hash is started
RegisterCheck(h, username, password) ==
  /\ inflight[h] = Idle
  /\ \A g \in Handlers : g < h => inflight[g] # Idle
  /\ Len(accounts) + Cardinality(Busy) < MaxAccounts
  /\ IF memGetUserByUsername(users, accounts, username) # <<>>
     THEN /\ resp' = RegisterResult(username, FALSE,
                                    "Username already exists", <<>>)
          /\ UNCHANGED inflight
     ELSE /\ inflight' = [inflight EXCEPT ![h] =
                            [pc |-> "hash", username |-> username,
                             password |-> password]]
          /\ UNCHANGED resp
  /\ UNCHANGED <<deployment, clock, advances, users, sessions, nextSid,
                 cookie, attemptLog, reqSession, otherStores>>

\* bcrypt.hash has answered: the record is stored under a new id
RegisterInsert(h) ==
  LET f == inflight[h]
      user == [id |-> randomUUID(Len(accounts) + 1),
               username |-> f.username,
               password |-> bcryptHash(f.password), loginAttempts |-> 0,
               lastFailedLogin |-> NoDate, cooldownUntil |-> NoDate]
  IN /\ f.pc = "hash"
     /\ accounts' = Append(accounts, user)
     /\ resp' = RegisterResult(f.username, TRUE, "", <<user>>)
     /\ inflight' = [inflight EXCEPT ![h] = Idle]
     /\ UNCHANGED <<deployment, clock, advances, users, sessions, nextSid,
                    cookie, attemptLog, reqSession, products, sales,
                    verificationCodes, sentCodes>>

NextRegister ==
  \/ \E h \in Handlers, u \in RegisterUsernames, p \in RegisterPasswords :
        RegisterCheck(h, u, p)
  \/ \E h \in Handlers : RegisterInsert(h)

SpecRegister == InitRegister /\ [][NextRegister]_vars

(* ------------------- email verification codes ------------------------- *)

\* The router keeps its codes in a map of its own; the store plays no part.
InitOtp == Init /\ deployment = "memory"

\* /send-code requests one behaviour may make
MaxSends == 2

\* clock advances of one behaviour of this specification
MaxOtpAdvances == 2

OtpJumps == {FiveMinutes}

\* req.body.email: absent, or an address
OtpEmails == {"a@x.io", "b@x.io"}
EmailInputs == OtpEmails \cup {""}

\* values of Math.floor(100000 + Math.random() * 900000)
Codes == {100000, 999999}

\* req.body.code as the client typed it: its leading decimal digits (NoDigits:
\* it does not start with a digit) and what follows them
NoDigits == -1
CodeInput(digits, rest) == [digits |-> digits, rest |-> rest]
CodeInputs ==
  {CodeInput(NoDigits, ""), CodeInput(NoDigits, "abc")}
    \cup {CodeInput(c, "") : c \in Codes}
    \cup {CodeInput(c, "abc") : c \in {100000}}

\* !code of an input: the empty string
Absent(code) == code.digits = NoDigits /\ code.rest = ""

\* parseInt(code, 10): the number the leading digits spell, NaN when there
\* are none; NaN equals no stored code
NaN == -2
parseInt(code) == IF code.digits = NoDigits THEN NaN ELSE code.digits

\* verificationCodes.set(email, { code, expiresAt })
setCode(vc, email, code, expiresAt) ==
  [e \in DOMAIN vc \cup {email} |->
     IF e = email THEN [code |-> code, expiresAt |-> expiresAt] ELSE vc[e]]

\* verificationCodes.delete(email)
deleteCode(vc, email) == [e \in DOMAIN vc \ {email} |-> vc[e]]

\* verificationCodes.get(email)  (<<>>: undefined)
getCode(vc, email) == IF email \in DOMAIN vc THEN <<vc[email]>> ELSE <<>>

\* The last /send-code or /verify-code request and its response.  record:
\* what verificationCodes.get returned (<<>>: undefined, or not called);
\* now: the handler's Date.now().
OtpResponse(op, email, code, status, verified, msg, record, now) ==
  [op |-> op, email |-> email, code |-> code, status |-> status,
   verified |-> verified, msg |-> msg, record |-> record, now |-> now]

\* mutant: a code that verified stays stored
verifyCodeRoute_KeepsVerified(vc, email, code, now) ==
  LET record == getCode(vc, email)
      Reply(status, verified, msg, vc1, got) ==
        [verificationCodes |-> vc1,
         resp |-> OtpResponse("verify", email, code, status, verified, msg,
                              got, now)]
      Answer(status, verified, msg, vc1) ==
        Reply(status, verified, msg, vc1, record)
  IN IF email = "" \/ Absent(code)
     THEN Reply(400, FALSE, "Email and code are required", vc, <<>>)
     ELSE IF record = <<>>
     THEN Answer(400, FALSE, "No code found or expired", vc)
     ELSE IF now > record[1].expiresAt
     THEN Answer(400, FALSE, "Code expired", deleteCode(vc, email))
     ELSE IF parseInt(code) = record[1].code
     THEN Answer(200, TRUE, "Email verified successfully", vc)
     ELSE Answer(400, FALSE, "Invalid code", vc)

\* mutant: the expiry test is left out
verifyCodeRoute_NoExpiry(vc, email, code, now) ==
  LET record == getCode(vc, email)
      Reply(status, verified, msg, vc1, got) ==
        [verificationCodes |-> vc1,
         resp |-> OtpResponse("verify", email, code, status, verified, msg,
                              got, now)]
      Answer(status, verified, msg, vc1) ==
        Reply(status, verified, msg, vc1, record)
  IN IF email = "" \/ Absent(code)
     THEN Reply(400, FALSE, "Email and code are required", vc, <<>>)
     ELSE IF record = <<>>
     THEN Answer(400, FALSE, "No code found or expired", vc)
     ELSE IF parseInt(code) = record[1].code
     THEN Answer(200, TRUE, "Email verified successfully",
                 deleteCode(vc, email))
     ELSE Answer(400, FALSE, "Invalid code", vc)

\* router.post /verify-code
verifyCodeRoute(vc, email, code, now) ==
  LET record == getCode(vc, email)
      Reply(status, verified, msg, vc1, got) ==
        [verificationCodes |-> vc1,
         resp |-> OtpResponse("verify", email, code, status, verified, msg,
                              got, now)]
      Answer(status, verified, msg, vc1) ==
        Reply(status, verified, msg, vc1, record)
  IN IF email = "" \/ Absent(code)
     THEN Reply(400, FALSE, "Email and code are required", vc, <<>>)
     ELSE IF record = <<>>
     THEN Answer(400, FALSE, "No code found or expired", vc)
     ELSE IF now > record[1].expiresAt
     THEN Answer(400, FALSE, "Code expired", deleteCode(vc, email))
     ELSE IF parseInt(code) = record[1].code
     THEN Answer(200, TRUE, "Email verified successfully",
                 deleteCode(vc, email))
     ELSE Answer(400, FALSE, "Invalid code", vc)

\* the /send-code requests so far that stored a code, in order; verified:
\* how many /verify-code requests answered verified = true on that code
Sends(sc, email) == {i \in DOMAIN sc : sc[i].email = email}

LastSend(sc, email) ==
  CHOOSE i \in Sends(sc, email) : \A j \in Sends(sc, email) : j <= i

OtpUnchanged ==
  UNCHANGED <<deployment, users, sessions, nextSid, cookie, attemptLog,
              reqSession, products, sales, accounts>>

\* One /send-code request.  The code is stored before the mail is handed to
\* the transporter; what follows the await only answers (delivered: sendMail
\* resolved; otherwise it rejected and the catch answers 500) and touches no
\* state, so the request is one step.
SendCode(email, code, delivered) ==
  /\ Len(sentCodes) < MaxSends
  /\ IF email = ""
     THEN /\ resp' = OtpResponse("send", email, CodeInput(NoDigits, ""), 400,
                                 FALSE, "Email is required", <<>>, clock)
          /\ UNCHANGED <<verificationCodes, sentCodes>>
     ELSE /\ verificationCodes' =
               setCode(verificationCodes, email, code, clock + FiveMinutes)
          /\ sentCodes' = Append(sentCodes,
                                 [email |-> email, code |-> code,
                                  at |-> clock,
                                  expiresAt |-> clock + FiveMinutes,
                                  verified |-> 0])
          /\ resp' = IF delivered
                     THEN OtpResponse("send", email, CodeInput(NoDigits, ""),
                                      200, FALSE,
                                      "Verification code sent successfully",
                                      <<>>, clock)
                     ELSE OtpResponse("send", email, CodeInput(NoDigits, ""),
                                      500, FALSE,
                                      "Error sending verification code",
                                      <<>>, clock)
  /\ UNCHANGED <<clock, advances, inflight>>
  /\ OtpUnchanged

\* one /verify-code request
VerifyCode(email, code) ==
  LET out == verifyCodeRoute(verificationCodes, email, code, clock)
  IN /\ verificationCodes' = out.verificationCodes
     /\ resp' = out.resp
     /\ sentCodes' = IF out.resp.verified
                     THEN [sentCodes EXCEPT
                             ![LastSend(sentCodes, email)].verified = @ + 1]
                     ELSE sentCodes
     /\ UNCHANGED <<clock, advances, inflight>>
     /\ OtpUnchanged

OtpTick(j) ==
  /\ advances < MaxOtpAdvances
  /\ clock' = clock + j
  /\ advances' = advances + 1
  /\ UNCHANGED <<resp, inflight, verificationCodes, sentCodes>>
  /\ OtpUnchanged

NextOtp ==
  \/ \E e \in EmailInputs, c \in Codes, delivered \in BOOLEAN :
        SendCode(e, c, delivered)
  \/ \E e \in EmailInputs, c \in CodeInputs : VerifyCode(e, c)
  \/ \E j \in OtpJumps : OtpTick(j)

SpecOtp == InitOtp /\ [][NextOtp]_vars

(* ======================= properties of the claims ====================== *)

\* the last request was a login on an existing account
LoginSeen == resp.op = "login" /\ resp.before # <<>>
\* that account as the handler read it, and as the request left it
Before == resp.before[1]
After == users[resp.username]
\* an account's cooldown is present and in the future at time t
ActiveCooldown(user, t) ==
  user.cooldownUntil # NoDate /\ t < user.cooldownUntil[1]
\* the wrong-password requests of an account's log that were counted
Counted(u) == SelectSeq(attemptLog[u], LAMBDA e : e.counted)

\* C1: a login on an account whose stored cooldownUntil is in the future is
\* answered Locked, with a correct password as with a wrong one, and leaves
\* loginAttempts, lastFailedLogin and cooldownUntil as they were and creates
\* no session.
C1_LockedLoginChangesNothing ==
  (LoginSeen /\ ActiveCooldown(Before, resp.now))
    => /\ Outcome(resp) = "Locked"
       /\ After.loginAttempts = Before.loginAttempts
       /\ After.lastFailedLogin = Before.lastFailedLogin
       /\ After.cooldownUntil = Before.cooldownUntil
       /\ resp.minted = <<>>
       /\ resp.session = <<>>

\* a correct password was submitted during an active cooldown
C1_Witness ==
  /\ LoginSeen
  /\ ActiveCooldown(Before, resp.now)
  /\ resp.pwOk
  /\ Before.loginAttempts >= 3

\* C2: in the express-session login route a wrong password on an account
\* that is not in cooldown and holds n failures stores n+1; n+1 >= 5 stores
\* cooldownUntil = now + 5 minutes and answers Locked, n+1 >= 3 stores
\* cooldownUntil = now + 1 minute and answers Locked, otherwise the answer is
\* Deny reporting n+1 of 5 attempts and cooldownUntil is left as it was.
C2_FailedAttemptThresholds ==
  (deployment = "memory" /\ LoginSeen /\ ~resp.pwOk
     /\ ~ActiveCooldown(Before, resp.now))
    => LET n1 == Before.loginAttempts + 1
       IN /\ After.loginAttempts = n1
          /\ n1 >= 5 => /\ After.cooldownUntil = <<resp.now + 300000>>
                        /\ Outcome(resp) = "Locked"
          /\ (n1 >= 3 /\ n1 < 5)
               => /\ After.cooldownUntil = <<resp.now + 60000>>
                  /\ Outcome(resp) = "Locked"
          /\ n1 < 3 => /\ Outcome(resp) = "Deny"
                       /\ resp.attempts = <<n1>>
                       /\ After.cooldownUntil = Before.cooldownUntil

\* the fifth failure was counted and the five-minute cooldown stored
C2_Witness ==
  /\ deployment = "memory" /\ LoginSeen /\ ~resp.pwOk
  /\ ~ActiveCooldown(Before, resp.now)
  /\ Before.loginAttempts = 4
  /\ After.cooldownUntil = <<resp.now + 300000>>

\* requests of the log answered by the cooldown check are Locked and leave
\* the counter at the value the entry before them stored
UncountedAreLocked(u) ==
  \A i \in 1..Len(attemptLog[u]) :
    ~attemptLog[u][i].counted
      => /\ attemptLog[u][i].outcome = "Locked"
         /\ attemptLog[u][i].lock = 0
         /\ i > 1
         /\ attemptLog[u][i].n = attemptLog[u][i - 1].n
         /\ attemptLog[u][i].n >= 3

\* C3 as stated: from a counter of 0, wrong passwords only: attempts 1 and 2
\* are Deny (4 then 3 remaining), attempt 3 sets a 1-minute cooldown, a wrong
\* attempt during the cooldown is Locked and not counted, the wrong attempt
\* after the cooldown has elapsed is Deny with the counter going from 3 to 4
\* and no new cooldown, and only the 5th counted one sets the 5-minute cooldown.
C3_Original ==
  deployment = "memory" =>
    \A u \in Usernames :
      /\ UncountedAreLocked(u)
      /\ \A k \in 1..Len(Counted(u)) :
           LET e == Counted(u)[k]
           IN /\ e.n = k
              /\ k \in {1, 2} => (e.outcome = "Deny" /\ e.lock = 0)
              /\ k = 3 => (e.outcome = "Locked" /\ e.lock = 1)
              /\ k = 4 => (e.outcome = "Deny" /\ e.lock = 0)
              /\ k = 5 => (e.outcome = "Locked" /\ e.lock = 5)
              /\ k < 5 => e.lock # 5

\* C3 as amended: as stated, except that the wrong attempt made after the
\* 1-minute cooldown has elapsed (the 4th counted one) is again answered
\* Locked and stores a new 1-minute cooldown; the 5th counted one, and each
\* counted one after it, stores the 5-minute cooldown, and none before does.
C3_LockoutProgression ==
  deployment = "memory" =>
    \A u \in Usernames :
      /\ UncountedAreLocked(u)
      /\ \A k \in 1..Len(Counted(u)) :
           LET e == Counted(u)[k]
           IN /\ e.n = k
              /\ k \in {1, 2} => (e.outcome = "Deny" /\ e.lock = 0)
              /\ k \in {3, 4} => (e.outcome = "Locked" /\ e.lock = 1)
              /\ k >= 5 => (e.outcome = "Locked" /\ e.lock = 5)

\* five wrong passwords were counted, with one answered by the cooldown check
\* in between
C3_Witness ==
  /\ deployment = "memory"
  /\ Len(Counted("user")) = 5
  /\ Len(attemptLog["user"]) > 5

\* C4 as stated: in the cookie-session login route, from a counter of 0 with
\* wrong passwords only, the 3rd failure sets a 1-minute cooldown and a
\* 5-minute cooldown is set only when the updated count reaches 5.
C4_Original ==
  deployment = "mongo" =>
    \A u \in Usernames :
      \A k \in 1..Len(Counted(u)) :
        LET e == Counted(u)[k]
        IN /\ k = 3 => e.lock = 1
           /\ e.lock = 5 => e.n >= 5

\* C5: a login with the correct password on an account that is not in
\* cooldown answers Allow, whatever loginAttempts was, and leaves the account
\* with loginAttempts = 0, lastFailedLogin = null and cooldownUntil = null.
C5_SuccessResets ==
  (LoginSeen /\ resp.pwOk /\ ~ActiveCooldown(Before, resp.now))
    => /\ Outcome(resp) = "Allow"
       /\ After.loginAttempts = 0
       /\ After.lastFailedLogin = NoDate
       /\ After.cooldownUntil = NoDate

\* a correct password was accepted after failures had been counted and the
\* cooldown they set had elapsed
C5_Witness ==
  /\ LoginSeen /\ resp.pwOk /\ Outcome(resp) = "Allow"
  /\ Before.loginAttempts >= 3
  /\ Before.lastFailedLogin # NoDate
  /\ Before.cooldownUntil # NoDate

\* a correct password was accepted on an account with no failure counted
C5_WitnessZero ==
  /\ LoginSeen /\ resp.pwOk /\ Outcome(resp) = "Allow"
  /\ Before.loginAttempts = 0

\* C6 as stated: after a login request that sets or clears the account's
\* cooldownUntil (by setCooldown or resetLoginAttempts), the account's
\* loginAttempts equals 0.
C6_Original ==
  (LoginSeen /\ After.cooldownUntil # Before.cooldownUntil)
    => After.loginAttempts = 0

\* C6 as amended: resetLoginAttempts and unlockUserAccount, and so a login
\* that clears cooldownUntil, leave loginAttempts = 0; setCooldown and
\* clearCooldown leave loginAttempts as it is, so that after a login that sets
\* a cooldown loginAttempts is the incremented count, which is 3 or more.
C6_CooldownAndCounter ==
  /\ (LoginSeen /\ After.cooldownUntil # Before.cooldownUntil)
       => IF After.cooldownUntil = NoDate
          THEN After.loginAttempts = 0
          ELSE /\ After.loginAttempts = Before.loginAttempts + 1
               /\ After.loginAttempts >= 3
  /\ \A u \in DOMAIN users :
       /\ resetLoginAttempts(users, u)[u].loginAttempts = 0
       /\ unlockUserAccount(users, u)[u].loginAttempts = 0
       /\ setCooldown(users, u, DateOf(clock + OneMinute))[u].loginAttempts
            = users[u].loginAttempts
       /\ clearCooldown(users, u)[u].loginAttempts = users[u].loginAttempts

\* a failed login has stored a cooldown and the counter is not 0
C6_Witness ==
  /\ LoginSeen
  /\ After.cooldownUntil # Before.cooldownUntil
  /\ After.cooldownUntil # NoDate
  /\ After.loginAttempts >= 3

\* C7 as stated: loginAttempts >= 5 implies that the account is in an active
\* cooldown (now < cooldownUntil), so a correct password is only ever
\* evaluated against an account whose loginAttempts is in 0..4.
C7_Original ==
  deployment = "memory" =>
    /\ \A u \in DOMAIN users :
         users[u].loginAttempts >= 5 => ActiveCooldown(users[u], clock)
    /\ (LoginSeen /\ resp.pwOk /\ Outcome(resp) = "Allow")
         => Before.loginAttempts \in 0..4

\* C7 as amended: loginAttempts >= 5 implies that a 5-minute cooldown counted
\* from the last failed attempt is stored, not that it is still active; once
\* it has elapsed the password is evaluated against an account whose
\* loginAttempts is 5 or more: a correct one answers Allow and resets the
\* counter, a wrong one is counted.
C7_CounterOutlivesCooldown ==
  /\ \A u \in DOMAIN users :
       users[u].loginAttempts >= 5
         => /\ users[u].cooldownUntil # NoDate
            /\ users[u].lastFailedLogin # NoDate
            /\ users[u].cooldownUntil[1] - users[u].lastFailedLogin[1]
                 \in {300000 - d : d \in HandlerDelays}
  /\ (LoginSeen /\ Before.loginAttempts >= 5
        /\ ~ActiveCooldown(Before, resp.now))
       => IF resp.pwOk
          THEN Outcome(resp) = "Allow" /\ After.loginAttempts = 0
          ELSE After.loginAttempts = Before.loginAttempts + 1

\* a correct password was evaluated, and accepted, on an account holding five
\* failures or more
C7_Witness ==
  /\ LoginSeen /\ resp.pwOk /\ Outcome(resp) = "Allow"
  /\ Before.loginAttempts >= 5

\* a response given by the cooldown check
LockedByCheck(r) ==
  r.op = "login" /\ r.before # <<>> /\ ActiveCooldown(r.before[1], r.now)
\* the remaining wait of such a response, in milliseconds
RemainingMs(r) == r.before[1].cooldownUntil[1] - r.now
\* the next response is given by the cooldown check on the same cooldown
SameCooldownAgain ==
  /\ LockedByCheck(resp) /\ LockedByCheck(resp')
  /\ resp'.username = resp.username
  /\ resp'.before[1].cooldownUntil = resp.before[1].cooldownUntil

\* C8 as stated: every login made while now < cooldownUntil answers Locked
\* with the remaining wait equal to cooldownUntil - now in seconds, the value
\* reported strictly decreases between two requests whenever now has
\* advanced, and loginAttempts is not changed.
C8_Original ==
  [][ /\ LockedByCheck(resp')
        => /\ Outcome(resp') = "Locked"
           /\ users'[resp'.username].loginAttempts
                = resp'.before[1].loginAttempts
           /\ resp'.wait # <<>>
           /\ resp'.wait[1] * 1000 = RemainingMs(resp')
      /\ (SameCooldownAgain /\ resp'.now > resp.now)
        => resp'.wait[1] < resp.wait[1] ]_vars

\* the unit the remaining wait is reported in, in milliseconds: minutes by
\* the express-session route, seconds by the cookie-session route
WaitUnit == IF deployment = "memory" THEN 60000 ELSE 1000

\* C8 as amended: every login made while now < cooldownUntil answers Locked
\* and reports the remaining wait rounded up to whole seconds (cookie-session
\* route) or whole minutes (express-session route); the value reported never
\* increases between two requests, and strictly decreases when now has
\* advanced by a whole unit or more; loginAttempts is not changed.
C8_LockedWaitRoundedUp ==
  [][ /\ LockedByCheck(resp')
        => /\ Outcome(resp') = "Locked"
           /\ users'[resp'.username].loginAttempts
                = resp'.before[1].loginAttempts
           /\ resp'.wait # <<>>
           /\ resp'.wait[1] * WaitUnit >= RemainingMs(resp')
           /\ (resp'.wait[1] - 1) * WaitUnit < RemainingMs(resp')
      /\ (SameCooldownAgain /\ resp'.now >= resp.now)
        => /\ resp'.wait[1] <= resp.wait[1]
           /\ resp'.now - resp.now >= WaitUnit
                => resp'.wait[1] < resp.wait[1] ]_vars

\* the cooldown check has answered with a wait that is not a whole number of
\* units, after time had passed since the cooldown was stored
C8_Witness ==
  /\ LockedByCheck(resp)
  /\ resp.wait # <<>>
  /\ resp.wait[1] * WaitUnit > RemainingMs(resp)
  /\ resp.now > 0

\* C9: once now >= cooldownUntil, the instant now = cooldownUntil included,
\* and with the field still stored, a login with the correct password is
\* evaluated as if there were no cooldown: it answers Allow and a new session
\* of that user is in the store.
C9_ElapsedCooldownRecovers ==
  (LoginSeen /\ resp.pwOk /\ Before.cooldownUntil # NoDate
     /\ resp.now >= Before.cooldownUntil[1])
    => /\ Outcome(resp) = "Allow"
       /\ resp.minted # <<>>
       /\ resp.minted[1] \in DOMAIN sessions
       /\ sessions[resp.minted[1]].userId = Before.id
       /\ After.cooldownUntil = NoDate

\* a correct password was submitted at the very instant the cooldown ended
C9_Witness ==
  /\ LoginSeen /\ resp.pwOk
  /\ Before.cooldownUntil # NoDate
  /\ resp.now = Before.cooldownUntil[1]
  /\ Outcome(resp) = "Allow"

\* C10 as stated: for a session created at time T by MemStorage.createSession,
\* getSession returns it for every lookup with now < T + 24h and returns
\* nothing for every lookup with now >= T + 24h, now = T + 24h included.
C10_Original ==
  (resp.op = "getSession" /\ resp.before # <<>>)
    => LET T == resp.before[1].createdAt
       IN /\ resp.now < T + 86400000 => resp.result = resp.before
          /\ resp.now >= T + 86400000 => resp.result = <<>>

\* C11 as stated: MongoStorage.getSession, asked for a stored session with
\* now >= expiresAt, returns nothing and the record is gone from the store,
\* whether or not the database's TTL monitor has removed it yet.
C11_Original ==
  (deployment = "mongo" /\ resp.op = "getSession" /\ resp.before # <<>>
     /\ resp.now >= resp.before[1].expiresAt)
    => /\ resp.result = <<>>
       /\ resp.sid \notin DOMAIN sessions

\* the step is a call of the session store named op
StoreCall(op) == resp'.op = op /\ resp' # resp

\* C16: deleteSession answers true exactly when a record of the id existed,
\* so that a second call on the same id answers false; after each call
\* getSession on the id finds nothing; on an id that was never minted, or
\* whose session has expired, the call answers a boolean like any other.
C16_DeleteIdempotent ==
  [][ StoreCall("deleteSession")
        => /\ resp'.result = <<resp'.sid \in DOMAIN sessions>>
           /\ resp'.sid \notin DOMAIN sessions'
           /\ getSession(sessions', resp'.sid, clock').found = <<>>
           /\ (resp.op = "deleteSession" /\ resp.sid = resp'.sid)
                => resp'.result = <<FALSE>> ]_vars

\* deleteSession has answered false for an id that was minted and, no time
\* having passed, can only have been removed by an earlier deleteSession
C16_Witness ==
  /\ resp.op = "deleteSession"
  /\ resp.result = <<FALSE>>
  /\ resp.sid < nextSid
  /\ clock = 0

\* C17: createSession adds one session whatever sessions exist, so a user may
\* hold several; a session leaves the store only as the target of the
\* getSession or deleteSession call of the step or once its own expiresAt has
\* been reached, and every session that stays keeps its userId and expiresAt.
C17_SessionsIndependent ==
  [][ /\ StoreCall("createSession")
           => /\ resp'.sid \notin DOMAIN sessions
              /\ DOMAIN sessions' = DOMAIN sessions \cup {resp'.sid}
      /\ DOMAIN sessions' \ DOMAIN sessions # {}
           => StoreCall("createSession")
      /\ \A s \in DOMAIN sessions :
           IF s \in DOMAIN sessions'
           THEN sessions'[s] = sessions[s]
           ELSE \/ /\ resp'.op \in {"getSession", "deleteSession"}
                   /\ resp'.sid = s
                \/ sessions[s].expiresAt <= clock ]_vars

\* one of two sessions of the same user was deleted and the other is still
\* stored
C17_Witness ==
  /\ resp.op = "deleteSession"
  /\ resp.before # <<>>
  /\ \E s \in DOMAIN sessions :
       /\ sessions[s].userId = resp.before[1].userId
       /\ getSession(sessions, s, clock).found = <<sessions[s]>>

\* C18: createSession stores expiresAt = the time of the call + 24h, no step
\* changes the expiresAt of a stored session, and a getSession on a session
\* whose expiresAt is still in the future returns it and leaves the store as
\* it was.
C18_ExpiryFixedAtCreation ==
  [][ /\ StoreCall("createSession")
           => sessions'[resp'.sid].expiresAt = clock + 86400000
      /\ \A s \in DOMAIN sessions \cap DOMAIN sessions' :
           sessions'[s].expiresAt = sessions[s].expiresAt
      /\ (StoreCall("getSession") /\ resp'.before # <<>>
            /\ clock < resp'.before[1].expiresAt)
           => /\ resp'.result = resp'.before
              /\ sessions' = sessions ]_vars

\* a session was found by getSession some time after it was created
C18_Witness ==
  /\ resp.op = "getSession"
  /\ resp.result # <<>>
  /\ resp.now > resp.result[1].createdAt
  /\ resp.sid \in DOMAIN sessions
  /\ sessions[resp.sid].expiresAt = resp.result[1].createdAt + 86400000

\* the step is a login request
LoginStep == resp'.op = "login" /\ (resp' # resp \/ sessions' # sessions)

\* C14: the session store gains a record only in a step that is a login
\* answered Allow; that step adds exactly one record, owned by the account
\* that authenticated, and removes none; a login answered Deny, Locked or
\* InvalidCredentials, a logout and the passing of time add none.
C14_SessionOnlyByAllow ==
  [][ /\ DOMAIN sessions' \ DOMAIN sessions # {}
           => /\ resp'.op = "login"
              /\ Outcome(resp') = "Allow"
      /\ (LoginStep /\ Outcome(resp') = "Allow")
           => /\ Cardinality(DOMAIN sessions' \ DOMAIN sessions) = 1
              /\ DOMAIN sessions \subseteq DOMAIN sessions'
              /\ \A s \in DOMAIN sessions' \ DOMAIN sessions :
                   /\ sessions'[s].userId = users[resp'.username].id
                   /\ resp'.minted = <<s>>
              /\ resp'.pwOk
      /\ (LoginStep /\ Outcome(resp') # "Allow")
           => /\ sessions' = sessions
              /\ resp'.minted = <<>> ]_vars

\* a session of the authenticated user is stored after failed and locked
\* logins had been answered without one
C14_Witness ==
  /\ resp.op = "login" /\ Outcome(resp) = "Allow"
  /\ resp.before[1].loginAttempts >= 3
  /\ resp.minted # <<>>
  /\ resp.minted[1] \in DOMAIN sessions
  /\ sessions[resp.minted[1]].userId = "user"

\* C15 as stated: after a logout request that carried the credential issued
\* by a login, getSession on the id of the session that login minted finds
\* nothing, in the express-session route pair as in the cookie route pair.
C15_Original ==
  (resp.op = "logout" /\ resp.credential # <<>>)
    => getSession(sessions, nextSid - 1, clock).found = <<>>

\* what the client sees of a login response: the status and the body
ClientView(r) ==
  [status |-> r.status, msg |-> r.msg, attempts |-> r.attempts,
   cooldownUntil |-> r.cooldownUntil, wait |-> r.wait]

\* the response a login with these inputs would get in the current state
WouldAnswer(username, password) ==
  LoginRoute(users, sessions, nextSid, username, password, clock, clock).resp

\* C19 as stated: in every state, a login with a wrong password for an
\* existing username that is answered Deny and the same login for a username
\* that does not exist get the same status and the same body.
C19_Original ==
  \A u \in Usernames, p \in Passwords :
    (~WouldAnswer(u, p).pwOk /\ Outcome(WouldAnswer(u, p)) = "Deny")
      => ClientView(WouldAnswer(u, p))
           = ClientView(WouldAnswer(UnknownUsername, p))

\* C20: a login for a username that has no account is answered with status
\* 401 as InvalidCredentials; the step leaves every account, the session
\* store and the session counter as they were and mints no session.
C20_UnknownUserChangesNothing ==
  [][ (resp'.op = "login" /\ resp'.username \notin DOMAIN users)
        => /\ resp'.before = <<>>
           /\ resp'.status = 401
           /\ Outcome(resp') = "InvalidCredentials"
           /\ resp'.minted = <<>>
           /\ resp'.session = <<>>
           /\ users' = users
           /\ sessions' = sessions
           /\ nextSid' = nextSid ]_vars

\* a login for an unknown username was answered while an account held
\* counted failures and a cooldown
C20_Witness ==
  /\ resp.op = "login"
  /\ resp.username = UnknownUsername
  /\ resp.before = <<>>
  /\ users["user"].loginAttempts >= 3
  /\ users["user"].cooldownUntil # NoDate

\* C12 as stated: two wrong-password logins for the same username that are in
\* progress at the same time never decide on the same failure count: the
\* counts their threshold decisions are based on differ by exactly one.
C12_Original ==
  \A h1, h2 \in Handlers :
    (h1 # h2 /\ inflight[h1].pc = "decided" /\ inflight[h2].pc = "decided"
       /\ inflight[h1].username = inflight[h2].username)
      => inflight[h1].count[1] - inflight[h2].count[1] \in {-1, 1}

\* C13 as stated: whenever no login request is in progress, requests that
\* were cut short by a failing store call included, an account whose
\* loginAttempts has reached the lock threshold of 3 has a cooldownUntil
\* stored.
C13_Original ==
  Busy = {}
    => \A u \in DOMAIN users :
         users[u].loginAttempts >= 3 => users[u].cooldownUntil # NoDate

\* C21 as stated: on an account whose three failures have just been counted
\* one after the other, the third was answered with a cooldown of about 60
\* seconds, and a login with the correct password made 61 seconds after it
\* answers Allow and stores a new session with expiresAt = now + 86400 s, in
\* the express-session route as in the cookie route.
C21_Original ==
  (LoginSeen /\ resp.pwOk /\ Before.loginAttempts = 3
     /\ Before.lastFailedLogin # NoDate
     /\ resp.now - Before.lastFailedLogin[1] \in 61000..61999)
    => /\ Before.cooldownUntil # NoDate
       /\ Before.cooldownUntil[1] - Before.lastFailedLogin[1]
            \in {60000 - d : d \in HandlerDelays}
       /\ Outcome(resp) = "Allow"
       /\ resp.minted # <<>>
       /\ resp.minted[1] \in DOMAIN sessions
       /\ sessions[resp.minted[1]].expiresAt - resp.now
            \in {86400000 + d : d \in HandlerDelays}

\* C22 as stated: when a store call of a login request fails, the response
\* is a server error (status 500 or above), no session was created or handed
\* out by the request, and the handler is done: it makes no further call.
C22_Original ==
  [][ \A h \in Handlers :
        StoreCallFails(h)
          => /\ resp'.status >= 500
             /\ resp'.minted = <<>>
             /\ resp'.session = <<>>
             /\ sessions' = sessions
             /\ inflight'[h] = Idle ]_vars

\* C24 as stated: with login requests for one username interleaved in any
\* way, no step stores a session of an account whose stored cooldownUntil is
\* in the future, and no step erases a cooldownUntil that is in the future.
C24_Original ==
  [][ \A u \in DOMAIN users :
        /\ (\E s \in DOMAIN sessions' \ DOMAIN sessions :
              sessions'[s].userId = users[u].id)
             => ~ActiveCooldown(users[u], clock)
        /\ ActiveCooldown(users[u], clock)
             => users'[u].cooldownUntil # NoDate ]_vars

\* C23 as stated: after a successful POST /api/admin/reset-password for an
\* account, with or without a new password, the account's counter is 0 and
\* it has no cooldown.
C23_Original ==
  (resp.op = "adminReset" /\ resp.status = 200)
    => /\ users[resp.username].loginAttempts = 0
       /\ users[resp.username].cooldownUntil = NoDate

\* C25 as stated: an admin endpoint changes or reveals account data only
\* when the cookie names a stored session that has not expired and whose
\* user is an admin; otherwise it answers 401 or 403 and changes nothing.
C25_Original ==
  resp.op \in {"adminReset", "adminAccounts"}
    => \/ /\ resp.session # <<>>
          /\ resp.now < resp.session[1].expiresAt
          /\ getUser(resp.before, resp.session[1].userId) # <<>>
          /\ toLowerCase(getUser(resp.before, resp.session[1].userId)[1].role) = "admin"
       \/ /\ resp.status \in {401, 403}
          /\ users = resp.before

\* units of a product that its Sale records say were sold
RECURSIVE SoldIn(_, _)
SoldIn(sl, p) ==
  IF sl = <<>> THEN 0
  ELSE (IF Head(sl).productId = p THEN Head(sl).quantitySold ELSE 0)
         + SoldIn(Tail(sl), p)

\* C26 as stated, taken at the states where no request is in progress: for
\* every product the stock removed so far equals the units its Sale records
\* add up to.
C26_Original ==
  Busy = {}
    => \A p \in ProductIds :
         seedProducts[p].quantity - products[p].quantity = SoldIn(sales, p)

\* C27 as stated: no stock quantity is ever negative and no step of a deduct
\* or sale request increases a product's stock.
C27_Original ==
  [][ \A p \in ProductIds :
        /\ products'[p].quantity >= 0
        /\ products'[p].quantity <= products[p].quantity ]_vars

\* C28 as stated: a POST /api/sales that is rejected has changed no stock
\* and created no Sale record.
C28_Original ==
  (resp.op = "sales" /\ resp.status \in {400, 404}) => resp.done = <<>>

\* C29 as stated: whatever the interleaving of registerUser calls, no two
\* stored accounts have the same username.
C29_Original ==
  /\ \A i, j \in DOMAIN accounts :
       i # j => accounts[i].username # accounts[j].username
  /\ \A i \in DOMAIN accounts : ~UserExists(users, accounts[i].username)

\* C30: a verification code is single-use and time-limited.  A /verify-code
\* request answers verified = true only when a code is stored for the email,
\* that code is the one the most recent /send-code of the email stored, the
\* request's code parses to it and the clock has not passed its expiresAt
\* (5 minutes after the send); a code that verified, or that a request
\* carrying a code found expired, is removed; a request that finds no code
\* is refused; and no send is verified more than once.
C30_CodeSingleUseAndTimed ==
  /\ resp.op = "verify"
       => /\ resp.verified
               => /\ resp.record # <<>>
                  /\ Sends(sentCodes, resp.email) # {}
                  /\ resp.record[1].code
                       = sentCodes[LastSend(sentCodes, resp.email)].code
                  /\ resp.record[1].expiresAt
                       = sentCodes[LastSend(sentCodes, resp.email)].at
                           + 5 * 60000
                  /\ parseInt(resp.code) = resp.record[1].code
                  /\ ~(resp.now > resp.record[1].expiresAt)
                  /\ resp.email \notin DOMAIN verificationCodes
          /\ (resp.record # <<>> /\ resp.now > resp.record[1].expiresAt)
               => resp.email \notin DOMAIN verificationCodes
          /\ resp.record = <<>> => ~resp.verified
  /\ \A i \in DOMAIN sentCodes : sentCodes[i].verified <= 1

\* the second code sent to an address, which replaced a different first one,
\* has verified at the last instant of its five minutes
C30_Witness ==
  /\ resp.op = "verify" /\ resp.verified
  /\ resp.email \notin DOMAIN verificationCodes
  /\ Cardinality(Sends(sentCodes, resp.email)) = 2
  /\ sentCodes[LastSend(sentCodes, resp.email)].verified = 1
  /\ resp.now = sentCodes[LastSend(sentCodes, resp.email)].expiresAt
  /\ \E i \in Sends(sentCodes, resp.email) :
        sentCodes[i].code # parseInt(resp.code)

====
